---------------------------- MODULE Spec2Model ----------------------------
(***************************************************************************)
(* State-machine model of BidiCore, the WebDriver Bidi command client of   *)
(* packages/webdriver/src/bidi/core.ts.                                    *)
(*                                                                         *)
(* One action per public method, event handler or timer callback.  A       *)
(* JavaScript callback runs to completion, and the promise continuations   *)
(* it makes runnable are drained before the next I/O event or timer, so    *)
(* the continuation of `await Promise.race(...)` in #connectWebsocket is   *)
(* part of the socket event that settles the race, and the continuation of *)
(* `await new Promise(...)` in send() is part of the step that settles     *)
(* that promise.  The await of the DNS lookups in connect() is real I/O    *)
(* and is a step of its own.                                               *)
(***************************************************************************)
EXTENDS Integers, Sequences, FiniteSets, TLC

VARIABLES
    unitTests,        \* process.env.WDIO_UNIT_TESTS
    id,               \* #id
    ws,               \* #ws: index into sockets, NoWs when undefined
    waitForConnected, \* #waitForConnected: index into races, 0 = Promise.resolve(false)
    webSocketUrl,     \* #webSocketUrl
    pendingCommands,  \* #pendingCommands: id -> index into calls (the resolver closure)
    isConnected,      \* _isConnected
    sockets,          \* every Socket constructed so far
    races,            \* every connect() call that went past the test-mode bypass
    calls,            \* every send() call that went past sendAsync
    issued,           \* the ids returned by sendAsync, in order
    last              \* what the most recent send, sendAsync or #handleResponse
                      \* returned, threw, logged and offered to this.client, or
                      \* that close() was the most recent call

vars == <<unitTests, id, ws, waitForConnected, webSocketUrl, pendingCommands,
          isConnected, sockets, races, calls, issued, last>>

-----------------------------------------------------------------------------
(* Bounds of the model *)

(* A run is bounded by the work it does: the connect() calls that go past  *)
(* the test-mode bypass, the Socket objects constructed and the commands   *)
(* that reach the id counter, counted together.                            *)
MaxWork == 5
MaxV4 == 1           \* A records a lookup returns
MaxV6 == 1           \* AAAA records a lookup returns
MaxAddrs == 2        \* records of one family when the resolver is checked alone

(* #ws = undefined *)
NoWs == 0

-----------------------------------------------------------------------------
(* URLs.  An endpoint URL is a string; a candidate URL is the endpoint URL *)
(* with the host as written ("literal") or replaced by a resolved address. *)

IpUrl == "ws://127.0.0.1:9222/session"
DomainUrl == "ws://example.test:9222/session"
Urls == {IpUrl, DomainUrl}

hostname(url) == IF url = IpUrl THEN "127.0.0.1" ELSE "example.test"

isIP(host) == host = "127.0.0.1"

Literal(url) == [end |-> url, host |-> "literal"]

(* String.prototype.replace(host, ip) on a URL: the first occurrence of    *)
(* host is replaced; a URL that does not contain host comes back as it is. *)
replace(url, host, ip) ==
    IF hostname(url) = host THEN [end |-> url, host |-> ip] ELSE Literal(url)

Addr(fam, n) == [fam |-> fam, n |-> n]
FirstAddrs(fam, k) == [i \in 1..k |-> Addr(fam, i)]

(* What dns.resolve4 / dns.resolve6 can settle with: a rejection, or a     *)
(* list of addresses.                                                      *)
DnsFail == [ok |-> FALSE, addrs |-> <<>>]
Resolve4Outcomes == {DnsFail} \cup {[ok |-> TRUE, addrs |-> FirstAddrs("v4", k)] : k \in 0..MaxV4}
Resolve6Outcomes == {DnsFail} \cup {[ok |-> TRUE, addrs |-> FirstAddrs("v6", k)] : k \in 0..MaxV6}

-----------------------------------------------------------------------------
(* Sockets (the ws library's WebSocket, as far as BidiCore uses it)        *)

(* this.#handleResponse.bind(this) makes a new function object each time   *)
(* it is evaluated: the listener attached at line 226 and the function     *)
(* handed to off() at line 73 are two different objects.                   *)
BoundAtOpen == "handleResponse.bind@226"
BoundAtClose == "handleResponse.bind@73"

NewSocket(url, r) ==
    [url |-> url, race |-> r, state |-> "connecting", listeners |-> {}, sent |-> <<>>]

(* EventEmitter.on / off: off removes the listener that is the very same   *)
(* function object, and nothing when there is none.                        *)
on(listeners, fn) == listeners \cup {fn}
off(listeners, fn) == listeners \ {fn}

(* WebSocket.close() and terminate(): an open or connecting socket ends up *)
(* closed and emits no 'open' or 'message' afterwards.  (Closing a socket  *)
(* that is still connecting makes it emit 'error' later; the only handler  *)
(* of that event appends to the errorMessages of a race that has already   *)
(* returned, which nothing reads.)                                         *)
closeSocket(sock) == [sock EXCEPT !.state = "closed"]

(* The value of `last` after a step that is none of the three. *)
Quiet == [op |-> "none"]

(* The value of `last` when close() has just returned. *)
JustClosed == [op |-> "close"]

(* The work done so far. *)
Work == id + Len(sockets) + Len(races)

(* A run needs a connect() call and a socket before its first command. *)
MaxCommands == MaxWork - 2

SocketIds == 1..Len(sockets)
RaceIds == 1..Len(races)
CallIds == 1..Len(calls)

Range(seq) == {seq[i] : i \in 1..Len(seq)}

-----------------------------------------------------------------------------
(* Address Resolver: #listWebsocketCandidateUrls, lines 190-208            *)

(* The list built once both lookups have resolved.  `url` and `host` are   *)
(* this.#webSocketUrl and parsedUrl.hostname as read when the method was   *)
(* entered; hostnameMapper reads this.#webSocketUrl again when it runs.    *)
listWebsocketCandidateUrls(url, host, current, r4, r6) ==
    LET candidateIps == r4.addrs \o r6.addrs
    IN  IF ~isIP(host) /\ Len(candidateIps) > 1
        THEN <<Literal(url)>> \o [i \in 1..Len(candidateIps) |-> replace(current, host, candidateIps[i])]
        ELSE <<Literal(url)>>

-----------------------------------------------------------------------------
(* Connection Racer: #connectWebsocket, lines 210-257                      *)

(* A connect() call: the URL and host it read on entry, where it stands    *)
(* ("listing": waiting for the lookups, "racing": at line 240, "done":     *)
(* returned `result`, "rejected": a lookup failed), the locals of          *)
(* #connectWebsocket (cands = candidateWebsockets, resolved = the          *)
(* wsConnectPromises that are resolved, errorMessages, first = whether     *)
(* onFirstWebsocketConnected was called), the messages warned at line 252, *)
(* and, for the record, the candidate whose 'open' fired first (0: none).  *)
NewRace(url) ==
    [url |-> url, host |-> hostname(url), pc |-> "listing", cands |-> <<>>,
     resolved |-> {}, errorMessages |-> <<>>, first |-> FALSE,
     warned |-> <<>>, result |-> FALSE, firstOpen |-> 0]

(* Lines 211-237: one Socket per candidate URL, all connecting.            *)
startedSockets(socks, r, candidateUrls) ==
    socks \o [i \in 1..Len(candidateUrls) |-> NewSocket(candidateUrls[i], r)]

startedRace(race, base, k) ==
    [race EXCEPT !.pc = "racing", !.cands = [i \in 1..k |-> base + i]]

(* Mutant: Promise.race over the candidates' promises, so that the first   *)
(* candidate to settle either way ends the wait.                           *)
raceSettledByAny(race) == race.first \/ race.resolved # {}

(* Whether the promise awaited at line 240 has settled: the first 'open'   *)
(* that bound #ws, or every candidate's promise resolved.                  *)
raceSettled(race) == race.first \/ race.resolved = Range(race.cands)

(* Lines 244-256, run when the race settles: given the state the event     *)
(* handler left (ws1, socks1, race1), the state after the continuation.    *)
raceContinuation(r, ws1, socks1, race1) ==
    IF race1.pc = "racing" /\ raceSettled(race1)
    THEN IF ws1 # NoWs
         THEN /\ sockets' = [s \in 1..Len(socks1) |->
                                IF s \in Range(race1.cands) /\ s # ws1
                                THEN closeSocket(socks1[s]) ELSE socks1[s]]
              /\ isConnected' = TRUE
              /\ races' = [races EXCEPT ![r] = [race1 EXCEPT !.pc = "done", !.result = TRUE]]
         ELSE /\ sockets' = socks1
              /\ isConnected' = FALSE
              /\ races' = [races EXCEPT ![r] = [race1 EXCEPT !.pc = "done", !.result = FALSE,
                                                              !.warned = race1.errorMessages]]
    ELSE /\ sockets' = socks1
         /\ races' = [races EXCEPT ![r] = race1]
         /\ UNCHANGED isConnected

(* Mutant: every candidate that opens takes the session over. *)
claimsWinnerAlways(w) == TRUE

(* The test of line 223: the handler binds its socket when none is bound.  *)
claimsWinner(w) == w = NoWs

(* ws.once('open', ...), lines 222-230 *)

CandidateOpen(s) ==
    LET r == sockets[s].race
        wins == claimsWinner(ws)
        ws1 == IF wins THEN s ELSE ws
        sock1 == [sockets[s] EXCEPT !.state = "open",
                                    !.listeners = IF wins THEN on(@, BoundAtOpen) ELSE @]
        socks1 == [sockets EXCEPT ![s] = sock1]
        race1 == [races[r] EXCEPT !.first = @ \/ wins, !.resolved = @ \cup {s},
                                  !.firstOpen = IF @ = 0 THEN s ELSE @]
    IN  /\ sockets[s].state = "connecting"
        /\ ws' = ws1
        /\ raceContinuation(r, ws1, socks1, race1)
        /\ last' = Quiet
        /\ UNCHANGED <<unitTests, id, waitForConnected, webSocketUrl, pendingCommands, calls, issued>>

(* ws.once('error', ...), lines 231-234 *)
CandidateError(s) ==
    LET r == sockets[s].race
        socks1 == [sockets EXCEPT ![s] = closeSocket(@)]
        race1 == [races[r] EXCEPT !.errorMessages = Append(@, s), !.resolved = @ \cup {s}]
    IN  /\ sockets[s].state = "connecting"
        /\ raceContinuation(r, ws, socks1, race1)
        /\ last' = Quiet
        /\ UNCHANGED <<unitTests, id, ws, waitForConnected, webSocketUrl, pendingCommands, calls, issued>>

-----------------------------------------------------------------------------
(* Session Lifecycle Manager: connect, close, reconnect, lines 48-86       *)

(* Mutant: close() drops the channel but forgets the flag. *)
closedLeavesConnected(socks, w, conn) ==
    IF conn /\ w # NoWs
    THEN [sockets |-> [socks EXCEPT ![w] = closeSocket(@)], ws |-> NoWs, isConnected |-> TRUE]
    ELSE [sockets |-> socks, ws |-> w, isConnected |-> FALSE]

(* close(), lines 65-78, as a function of the fields it touches.  off() is *)
(* handed a function object made on the spot.                              *)
closed(socks, w, conn) ==
    IF ~conn
    THEN [sockets |-> socks, ws |-> w, isConnected |-> conn]
    ELSE IF w # NoWs
         THEN [sockets |-> [socks EXCEPT ![w] =
                               closeSocket([@ EXCEPT !.listeners = off(@, BoundAtClose)])],
               ws |-> NoWs, isConnected |-> FALSE]
         ELSE [sockets |-> socks, ws |-> w, isConnected |-> FALSE]

(* connect(), lines 48-63, up to its first real suspension, on a session   *)
(* whose sockets and _isConnected are `socks` and `conn`.  In test mode it *)
(* only sets the flag.  Otherwise it reads #webSocketUrl; a literal IP     *)
(* host needs no lookup and the sockets are made at once; a domain host    *)
(* leaves the call waiting for the two lookups.                            *)
connectFrom(url, socks, conn) ==
    LET r == Len(races) + 1
        race == NewRace(url)
        candidateUrls == listWebsocketCandidateUrls(url, race.host, url, DnsFail, DnsFail)
    IN  IF unitTests
        THEN /\ isConnected' = TRUE
             /\ sockets' = socks
             /\ UNCHANGED <<races, waitForConnected>>
        ELSE /\ Work < MaxWork
             /\ isConnected' = conn
             /\ IF isIP(race.host)
                THEN /\ Work + 1 + Len(candidateUrls) <= MaxWork
                     /\ sockets' = startedSockets(socks, r, candidateUrls)
                     /\ races' = Append(races, startedRace(race, Len(socks), Len(candidateUrls)))
                     /\ waitForConnected' = r
                ELSE /\ sockets' = socks
                     /\ races' = Append(races, race)
                     /\ UNCHANGED waitForConnected

Connect ==
    /\ connectFrom(webSocketUrl, sockets, isConnected)
    /\ last' = Quiet
    /\ UNCHANGED <<unitTests, id, ws, webSocketUrl, pendingCommands, calls, issued>>

(* The two lookups of line 195 settle.  Promise.all rejects when either    *)
(* lookup rejects, and connect() rejects with it before line 61.           *)
DnsSettle(r, r4, r6) ==
    LET race == races[r]
        candidateUrls == listWebsocketCandidateUrls(race.url, race.host, webSocketUrl, r4, r6)
    IN  /\ race.pc = "listing"
        /\ IF r4.ok /\ r6.ok
           THEN /\ Work + Len(candidateUrls) <= MaxWork
                /\ sockets' = startedSockets(sockets, r, candidateUrls)
                /\ races' = [races EXCEPT ![r] = startedRace(race, Len(sockets), Len(candidateUrls))]
                /\ waitForConnected' = r
           ELSE /\ races' = [races EXCEPT ![r].pc = "rejected"]
                /\ UNCHANGED <<sockets, waitForConnected>>
        /\ last' = Quiet
        /\ UNCHANGED <<unitTests, id, ws, webSocketUrl, pendingCommands,
                       isConnected, calls, issued>>

(* Mutant: close() clears the pending table. *)
closeFlushes ==
    /\ pendingCommands' = <<>>
    /\ UNCHANGED <<id, calls, issued>>

(* What close() does not touch: the id counter, #pendingCommands and the   *)
(* promises and timers of the sends in flight.                             *)
closeLeaves ==
    UNCHANGED <<id, pendingCommands, calls, issued>>

Close ==
    LET c == closed(sockets, ws, isConnected)
    IN  /\ sockets' = c.sockets
        /\ ws' = c.ws
        /\ isConnected' = c.isConnected
        /\ closeLeaves
        /\ last' = JustClosed
        /\ UNCHANGED <<unitTests, waitForConnected, webSocketUrl, races>>

(* reconnect(), lines 80-86 *)
Reconnect(url) ==
    LET c == closed(sockets, ws, isConnected)
    IN  /\ ws' = c.ws
        /\ webSocketUrl' = url
        /\ connectFrom(url, c.sockets, c.isConnected)
        /\ closeLeaves
        /\ last' = Quiet
        /\ UNCHANGED unitTests

-----------------------------------------------------------------------------
(* Inbound data.  A message is text; JSON.parse throws on text that is not *)
(* JSON ("garbage"), gives null for the text "null" (reading a property of *)
(* null throws), and otherwise gives an object, of which the handler and   *)
(* send() read: id, type, whether it has an `error` key, and result.data.  *)

Message(kind, hasId, mid, type, hasError, data) ==
    [kind |-> kind, hasId |-> hasId, id |-> mid, type |-> type, hasError |-> hasError, data |-> data]

Garbage == Message("garbage", FALSE, 0, "none", FALSE, "none")
JsonNull == Message("null", FALSE, 0, "none", FALSE, "none")
Event == Message("object", FALSE, 0, "event", FALSE, "none")
NoPayload == Message("none", FALSE, 0, "none", FALSE, "none")

(* Responses: a success with a plain result, a success whose result.data   *)
(* is base64 text, and the three ways of marking an error.                 *)
Responses(mid) ==
    { Message("object", TRUE, mid, "success", FALSE, "text"),
      Message("object", TRUE, mid, "success", FALSE, "b64"),
      Message("object", TRUE, mid, "error", TRUE, "none"),
      Message("object", TRUE, mid, "error", FALSE, "none"),
      Message("object", TRUE, mid, "success", TRUE, "none") }

(* The peer may send anything: ids that are pending, settled, 0 or not yet  *)
(* issued.                                                                 *)
Inbound == {Garbage, JsonNull, Event} \cup UNION {Responses(i) : i \in 0..(id + 1)}

parses(data) == data.kind = "object"

(* !payload.id, line 115: the key is missing or its value is 0 *)
noId(payload) == ~payload.hasId \/ payload.id = 0

(* Lines 123-129: the text that is logged.  A base64 result.data is        *)
(* replaced by its length.                                                 *)
resultLog(payload) ==
    IF payload.data = "b64" THEN [payload EXCEPT !.data = "Base64 string [n chars]"] ELSE payload

(* payload.type === 'error' || 'error' in payload, line 161 *)
isErrorResponse(payload) == payload.type = "error" \/ payload.hasError

-----------------------------------------------------------------------------
(* Command Correlator: send, sendAsync, #handleResponse, the timer         *)

(* Mutant: the counter is read without being bumped. *)
nextIdNotBumped(cur) == cur

(* ++this.#id, line 184 *)
nextId(cur) == cur + 1

(* The guard of sendAsync, line 179 *)
notConnected == ws = NoWs \/ ~isConnected

(* Mutant: the counter is bumped before the connection is checked. *)
sendAsyncThrowsAfterBump ==
    /\ id' = id + 1
    /\ UNCHANGED <<sockets, issued>>

(* sendAsync() throwing at line 180: nothing is touched. *)
sendAsyncThrows ==
    UNCHANGED <<id, sockets, issued>>

(* sendAsync() from line 183 on: the counter is bumped, the command is     *)
(* offered to the client and written to #ws, the id is returned.           *)
sendAsyncWrites ==
    /\ Work < MaxWork
    /\ id' = nextId(id)
    /\ sockets' = [sockets EXCEPT ![ws].sent = Append(@, id')]
    /\ issued' = Append(issued, id')

SendAsync ==
    /\ IF notConnected
       THEN /\ sendAsyncThrows
            /\ last' = [op |-> "sendAsync", threw |-> "NotConnected", id |-> 0]
       ELSE /\ sendAsyncWrites
            /\ last' = [op |-> "sendAsync", threw |-> "none", id |-> id']
    /\ UNCHANGED <<unitTests, ws, waitForConnected, webSocketUrl, pendingCommands,
                   isConnected, races, calls>>

(* The promise of lines 150-159: a timer armed, a resolver registered.     *)
NewCall(cid) ==
    [id |-> cid, timer |-> "armed", resolves |-> 0, rejects |-> 0,
     outcome |-> "pending", payload |-> NoPayload]

(* send(), lines 147-159, up to the await. *)
Send ==
    /\ IF notConnected
       THEN /\ sendAsyncThrows
            /\ last' = [op |-> "send", threw |-> "NotConnected", id |-> 0]
            /\ UNCHANGED <<calls, pendingCommands>>
       ELSE /\ sendAsyncWrites
            /\ calls' = Append(calls, NewCall(id'))
            /\ pendingCommands' = (id' :> Len(calls')) @@ pendingCommands
            /\ last' = [op |-> "send", threw |-> "none", id |-> id']
    /\ UNCHANGED <<unitTests, ws, waitForConnected, webSocketUrl, isConnected, races>>

(* A promise settles once: the first resolve or reject decides, the rest   *)
(* are ignored.                                                            *)
settle(call, outcome, payload) ==
    IF call.outcome = "pending"
    THEN [call EXCEPT !.outcome = outcome, !.payload = payload]
    ELSE call

(* clearTimeout(t), line 156 *)
clearTimeout(timer) == IF timer = "armed" THEN "cleared" ELSE timer

(* What send() makes of the payload it awaited, lines 161-175 *)
sendResult(payload) == IF isErrorResponse(payload) THEN "remoteError" ELSE "returned"

(* Mutant: the resolver forgets clearTimeout(t). *)
resolverKeepsTimer(call, payload) ==
    [settle(call, sendResult(payload), payload) EXCEPT !.resolves = @ + 1]

(* The resolver registered at line 155, called with a payload, followed by *)
(* the rest of send().                                                     *)
resolver(call, payload) ==
    [settle(call, sendResult(payload), payload) EXCEPT
        !.timer = clearTimeout(@), !.resolves = @ + 1]

(* Mutant: responses are matched in send order, the oldest waiter first. *)
getPendingOldest(pending, pid) ==
    IF DOMAIN pending = {} THEN 0
    ELSE pending[CHOOSE k \in DOMAIN pending : \A j \in DOMAIN pending : k <= j]

(* this.#pendingCommands.get(payload.id), line 133: 0 when there is none *)
getPending(pending, pid) == IF pid \in DOMAIN pending THEN pending[pid] ELSE 0

(* Mutant: the entry is looked up and left in the table. *)
deleteKeeps(pending, pid) == pending

(* Map.delete *)
delete(pending, pid) == [k \in DOMAIN pending \ {pid} |-> pending[k]]

(* Mutant: the redacted copy made for the log is what gets delivered. *)
deliveredRedacted(payload) == resultLog(payload)

(* What #handleResponse hands to the resolver, line 140 *)
delivered(payload) == payload

(* What a run of #handleResponse left behind: the last line it logged,     *)
(* whether it reached this.client?.emit('bidiResult', payload) (line 132;  *)
(* an attached client then receives the payload), the call whose resolver it *)
(* called (0: none) and the payload it parsed for that call.  It never     *)
(* throws: the whole body is inside try/catch.                             *)
Handled(log, emitted, c, payload) ==
    [op |-> "message", threw |-> FALSE, log |-> log, emitted |-> emitted,
     call |-> c, payload |-> payload]

(* Mutant: no try/catch around the parse. *)
uncaught == [Handled("none", FALSE, 0, NoPayload) EXCEPT !.threw = TRUE]

(* Mutant: the payload is emitted before the id is looked at. *)
forwarded == Handled("BIDI RESULT", TRUE, 0, NoPayload)

(* The catch block, lines 141-144: the error is logged and goes no further *)
caught == Handled("Failed parse message", FALSE, 0, NoPayload)

(* The early return of lines 115-117, before anything is logged or emitted *)
ignored == Handled("none", FALSE, 0, NoPayload)

(* #handleResponse(data), lines 112-145, called for a 'message' of socket s *)
handleResponse(s, data) ==
    IF ~parses(data)
    THEN /\ last' = caught
         /\ UNCHANGED <<pendingCommands, calls>>
    ELSE IF noId(data)
    THEN /\ last' = ignored
         /\ UNCHANGED <<pendingCommands, calls>>
    ELSE LET c == getPending(pendingCommands, data.id)
         IN  IF c = 0
             THEN /\ last' = Handled("Couldn't resolve command", TRUE, 0, NoPayload)
                  /\ UNCHANGED <<pendingCommands, calls>>
             ELSE /\ pendingCommands' = delete(pendingCommands, data.id)
                  /\ calls' = [calls EXCEPT ![c] = resolver(@, delivered(data))]
                  /\ last' = Handled("BIDI RESULT", TRUE, c, data)

(* A 'message' event of a socket: every attached listener is called.  Only *)
(* an open socket receives.                                                *)
MessageEvent(s, data) ==
    /\ sockets[s].state = "open"
    /\ sockets[s].listeners # {}
    /\ handleResponse(s, data)
    /\ UNCHANGED <<unitTests, id, ws, waitForConnected, webSocketUrl, isConnected,
                   sockets, races, issued>>

(* The timer of lines 151-154 fires. *)
timerFired(call) ==
    [settle(call, "timeout", call.payload) EXCEPT !.timer = "fired", !.rejects = @ + 1]

Timeout(c) ==
    /\ c \in CallIds
    /\ calls[c].timer = "armed"
    /\ calls' = [calls EXCEPT ![c] = timerFired(@)]
    /\ pendingCommands' = delete(pendingCommands, calls[c].id)
    /\ last' = Quiet
    /\ UNCHANGED <<unitTests, id, ws, waitForConnected, webSocketUrl, isConnected,
                   sockets, races, issued>>

-----------------------------------------------------------------------------
(* The session after construction (lines 21-37) and its steps              *)

Init ==
    /\ unitTests \in BOOLEAN
    /\ id = 0
    /\ ws = NoWs
    /\ waitForConnected = 0
    /\ webSocketUrl \in Urls
    /\ pendingCommands = <<>>
    /\ isConnected = FALSE
    /\ sockets = <<>>
    /\ races = <<>>
    /\ calls = <<>>
    /\ issued = <<>>
    /\ last = Quiet

Next ==
    \/ Connect
    \/ Close
    \/ \E url \in Urls : Reconnect(url)
    \/ \E r \in RaceIds : \E r4 \in Resolve4Outcomes : \E r6 \in Resolve6Outcomes : DnsSettle(r, r4, r6)
    \/ \E s \in SocketIds : CandidateOpen(s)
    \/ \E s \in SocketIds : CandidateError(s)
    \/ SendAsync
    \/ Send
    \/ \E s \in SocketIds : \E data \in Inbound : MessageEvent(s, data)
    \/ \E c \in CallIds : Timeout(c)

Spec == Init /\ [][Next]_vars

(* The connection lifecycle alone.  send, sendAsync, the message handler   *)
(* and the timers neither read nor write what these steps read (#ws,       *)
(* _isConnected, #webSocketUrl, the races and the sockets' states), so no  *)
(* connection behaviour is lost by leaving them out.                       *)
NextLifecycle ==
    \/ Connect
    \/ Close
    \/ \E url \in Urls : Reconnect(url)
    \/ \E r \in RaceIds : \E r4 \in Resolve4Outcomes : \E r6 \in Resolve6Outcomes : DnsSettle(r, r4, r6)
    \/ \E s \in SocketIds : CandidateOpen(s)
    \/ \E s \in SocketIds : CandidateError(s)

SpecLifecycle == Init /\ [][NextLifecycle]_vars

(* The resolver alone: connect() and reconnect() calls and their lookups,  *)
(* which may return any list of addresses of their family, an address      *)
(* listed twice included (the answer is relayed as the server sent it).    *)
AddrLists(fam) == UNION {[1..k -> {Addr(fam, n) : n \in 1..MaxAddrs}] : k \in 0..MaxAddrs}
AnyResolve4 == {DnsFail} \cup {[ok |-> TRUE, addrs |-> l] : l \in AddrLists("v4")}
AnyResolve6 == {DnsFail} \cup {[ok |-> TRUE, addrs |-> l] : l \in AddrLists("v6")}

NextResolver ==
    \/ Connect
    \/ \E url \in Urls : Reconnect(url)
    \/ \E r \in RaceIds : \E r4 \in AnyResolve4 : \E r6 \in AnyResolve6 : DnsSettle(r, r4, r6)

SpecResolver == Init /\ [][NextResolver]_vars

(* An armed timer fires: the event loop runs every timer that is not       *)
(* cleared.                                                                *)
SpecFair == Spec /\ \A c \in 1..MaxCommands : WF_vars(Timeout(c))

-----------------------------------------------------------------------------
(* Claims                                                                  *)

Pending(c) == c \in CallIds /\ calls[c].outcome = "pending"
Settled(c) == c \in CallIds /\ calls[c].outcome # "pending"
ByResponse(c) == c \in CallIds /\ calls[c].outcome \in {"returned", "remoteError"}
ByTimeout(c) == c \in CallIds /\ calls[c].outcome = "timeout"

SettlesAtMostOnce ==
    \A c \in CallIds :
        /\ calls[c].resolves + calls[c].rejects <= 1
        /\ Pending(c) <=> calls[c].resolves + calls[c].rejects = 0
        /\ Pending(c) <=> calls[c].timer = "armed"
        /\ Pending(c) <=> (calls[c].id \in DOMAIN pendingCommands /\ pendingCommands[calls[c].id] = c)
        /\ ByResponse(c) <=> calls[c].resolves = 1
        /\ ByTimeout(c) <=> calls[c].rejects = 1
        /\ ByResponse(c) => calls[c].payload.id = calls[c].id

(* C1: every send() that passed sendAsync settles exactly once: its        *)
(* resolver and its timer are never both run, while it is pending exactly  *)
(* one waiter and one armed timer exist for it, a settlement by response   *)
(* comes from the response carrying its own id, and, timers being fair, no *)
(* send stays pending forever.                                             *)
C1_SendSettlesExactlyOnce ==
    /\ []SettlesAtMostOnce
    /\ \A c \in 1..MaxCommands : Pending(c) ~> Settled(c)

(* Witness of C1: one send settled by its response, another by its timer.  *)
C1_Witness ==
    \E c, d \in CallIds : ByResponse(c) /\ ByTimeout(d)

(* C2: the ids sendAsync returns start at 1 and each is greater than every *)
(* id returned before it, across responses, timeouts, failed sends, close  *)
(* and reconnect.                                                          *)
C2_IdsStrictlyIncreasing ==
    /\ Len(issued) > 0 => issued[1] = 1
    /\ \A i, j \in 1..Len(issued) : i < j => issued[i] < issued[j]

(* Witness of C2: three ids issued, by send() and by sendAsync(), around a *)
(* response and a timeout.                                                 *)
C2_Witness ==
    /\ Len(issued) >= 3
    /\ \E c \in CallIds : ByTimeout(c)
    /\ \E c \in CallIds : ByResponse(c)
    /\ Len(calls) < Len(issued)

(* C3: a send() settled by a response holds the payload whose id is the id *)
(* assigned to that send, whatever the order the responses arrive in.      *)
C3_CorrelatedById ==
    \A c \in CallIds : ByResponse(c) => calls[c].payload.id = calls[c].id

(* Witness of C3: two sends in flight, the response to the second arrived  *)
(* first, and both hold their own payload.                                 *)
C3_Witness ==
    /\ Len(calls) >= 2
    /\ ByResponse(1) /\ ByResponse(2)
    /\ calls[1].id < calls[2].id
    /\ last.op = "message" /\ last.call = 1

(* C4: send() and sendAsync() on a session with no channel or not          *)
(* connected throw the not-connected error and change nothing: no write to *)
(* any socket, no new id, no waiter, no timer.                             *)
C4_NotConnectedChangesNothing ==
    [][ (notConnected /\ (Send \/ SendAsync)) =>
            /\ last'.threw = "NotConnected"
            /\ UNCHANGED <<id, ws, isConnected, sockets, pendingCommands, calls, issued, races>>
      ]_vars

(* Witness of C4: a send refused on a session that had sent before.        *)
C4_Witness ==
    /\ last.op \in {"send", "sendAsync"} /\ last.threw = "NotConnected"
    /\ id > 0 /\ pendingCommands # <<>>

completes(r) == races[r].pc = "racing" /\ races'[r].pc = "done"
OthersClosed(r, w) == \A t \in Range(races[r].cands) : t # w => sockets[t].state = "closed"
AllFailed(race) == race.firstOpen = 0 /\ Range(race.errorMessages) = Range(race.cands)

(* C5 as stated: in every race the candidate whose 'open' fires first      *)
(* becomes the active channel, connect() reports connected and the other   *)
(* candidates of the race are closed when it completes.                    *)
C5_Original ==
    [][ \A s \in SocketIds :
          (CandidateOpen(s) /\ races[sockets[s].race].firstOpen = 0) =>
              /\ ws' = s
              /\ isConnected'
              /\ races'[sockets[s].race].pc = "done" /\ races'[sockets[s].race].result
              /\ OthersClosed(sockets[s].race, s)'
      ]_vars

(* C5 amended: a candidate whose 'open' fires while the session has no     *)
(* active channel becomes the active channel whatever its position,        *)
(* connect() then reports connected and the other candidates of its race   *)
(* are closed; a candidate that opens while a channel is active never      *)
(* replaces it; and whenever connect() returns true, all candidates of its *)
(* race but the active channel are closed.                                 *)
C5_FirstOpenOnIdleSessionWins ==
    [][ /\ \A s \in SocketIds :
            /\ (CandidateOpen(s) /\ ws = NoWs) =>
                  /\ ws' = s
                  /\ isConnected'
                  /\ races'[sockets[s].race].pc = "done" /\ races'[sockets[s].race].result
                  /\ OthersClosed(sockets[s].race, s)'
            /\ (CandidateOpen(s) /\ ws # NoWs) => ws' = ws
        /\ \A r \in RaceIds : (completes(r) /\ races'[r].result) => OthersClosed(r, ws)'
      ]_vars

(* Witness of C5: a race over three candidates won by one that is not the  *)
(* first of the list, the two others closed.                               *)
C5_Witness ==
    \E r \in RaceIds :
        /\ races[r].pc = "done" /\ races[r].result /\ isConnected
        /\ Len(races[r].cands) = 3
        /\ ws = races[r].firstOpen /\ ws # races[r].cands[1]
        /\ OthersClosed(r, ws)

Unmatched(data) == parses(data) /\ data.hasId /\ data.id # 0 /\ data.id \notin DOMAIN pendingCommands

(* C7: a response whose id has no entry in the pending table is discarded: *)
(* the table is unchanged, no send is settled, no timer is cleared.        *)
C7_UnmatchedResponseDiscarded ==
    [][ last'.op = "message" =>
          \A s \in {t \in SocketIds : sockets[t].state = "open"} :
              \A data \in {d \in Inbound : Unmatched(d)} :
                  MessageEvent(s, data) =>
                      /\ UNCHANGED <<pendingCommands, calls>>
                      /\ last'.call = 0
      ]_vars

(* Witness of C7: a response was discarded while a send was pending.       *)
C7_Witness ==
    /\ last.op = "message" /\ last.log = "Couldn't resolve command"
    /\ \E c \in CallIds : Pending(c)
    /\ \E c \in CallIds : ByTimeout(c)

(* C8: a message that cannot be parsed is absorbed: the handler does not   *)
(* throw, the pending table and every send are untouched, and the session  *)
(* stays connected on the same channel.                                    *)
C8_MalformedAbsorbed ==
    [][ \A s \in SocketIds : \A data \in {Garbage, JsonNull} :
          MessageEvent(s, data) =>
              /\ ~last'.threw
              /\ UNCHANGED <<pendingCommands, calls, ws, isConnected, sockets>>
      ]_vars

(* Witness of C8: a malformed message handled while a send was pending.    *)
C8_Witness ==
    /\ last.op = "message" /\ last.log = "Failed parse message"
    /\ isConnected /\ ws # NoWs
    /\ \E c \in CallIds : Pending(c)

C10_ErrorIffMarkedElsePayloadAsReceived ==
    /\ (last.op = "message" /\ last.call # 0) =>
            LET call == calls[last.call]
                marked == last.payload.type = "error" \/ last.payload.hasError
            IN  /\ call.outcome = "remoteError" <=> marked
                /\ call.outcome = "returned" <=> ~marked
                /\ call.payload = last.payload
                /\ call.timer = "cleared"
                /\ call.id \notin DOMAIN pendingCommands
    /\ \A c \in CallIds :
            /\ calls[c].outcome = "remoteError" <=>
                   (calls[c].resolves = 1 /\ (calls[c].payload.type = "error" \/ calls[c].payload.hasError))
            /\ ByResponse(c) => calls[c].timer = "cleared" /\ calls[c].id \notin DOMAIN pendingCommands

(* Witness of C10: a send returned a payload whose result.data is base64   *)
(* and another failed on a response marked by its `error` key alone.       *)
C10_Witness ==
    \E c, d \in CallIds :
        /\ calls[c].outcome = "returned" /\ calls[c].payload.data = "b64"
        /\ calls[d].outcome = "remoteError" /\ calls[d].payload.type # "error"

(* C11: connect() on a session that is already connected opens no new     *)
(* candidate channel, resolves no addresses (starts no lookup), and leaves *)
(* the active channel and the connected state unchanged.                   *)
C11_ConnectWhenConnectedShortCircuits ==
    [][ (isConnected /\ Connect) => UNCHANGED <<sockets, races, ws, isConnected>> ]_vars

(* C12: close() on a connected session detaches the inbound handler from   *)
(* the active channel, closes it, clears the reference and leaves the      *)
(* session Disconnected; close() on a disconnected session changes         *)
(* nothing.                                                                *)
C12_CloseDetachesAndDisconnects ==
    [][ /\ (isConnected /\ ws # NoWs /\ Close) =>
               /\ sockets'[ws].listeners = {}
               /\ sockets'[ws].state = "closed"
               /\ ws' = NoWs
               /\ ~isConnected'
        /\ (~isConnected /\ Close) =>
               UNCHANGED <<sockets, ws, isConnected, races, pendingCommands, calls, id>>
      ]_vars

(* Race r was started by a reconnect() to an endpoint other than the one   *)
(* in use before: #webSocketUrl changes in reconnect() only, and every     *)
(* reconnect() outside test mode starts a race, so a race whose URL        *)
(* differs from the URL of the race before it is the race of the           *)
(* reconnect() that changed the endpoint.                                  *)
ByReconnect(r) == r > 1 /\ races[r].url # races[r - 1].url

(* C13: a reconnect(newEndpoint) that completes as connected leaves the    *)
(* active channel bound to a channel of the new endpoint, also when a      *)
(* connect() to the previous endpoint was in flight.                       *)
C13_ReconnectBindsNewEndpoint ==
    [][ \A r \in RaceIds :
          (ByReconnect(r) /\ completes(r) /\ races'[r].result) =>
              /\ ws' # NoWs
              /\ sockets'[ws'].url.end = races[r].url
      ]_vars

(* The candidate list a connect() call got from the resolver, read off the *)
(* sockets made from it, in order.                                         *)
candidateList(socks, race) == [i \in 1..Len(race.cands) |-> socks[race.cands[i]].url]

(* The endpoint URL with its host replaced by a resolved address. *)
Substituted(url, ip) == [end |-> url, host |-> ip]

RECURSIVE DedupFrom(_, _)
DedupFrom(seq, i) ==
    IF i > Len(seq) THEN <<>>
    ELSE (IF \E j \in 1..(i - 1) : seq[j] = seq[i] THEN <<>> ELSE <<seq[i]>>) \o DedupFrom(seq, i + 1)

Dedup(seq) == DedupFrom(seq, 1)

(* C14: the resolver's list starts with the literal endpoint URL; it is    *)
(* exactly that when the host is a literal IP or the lookups give at most  *)
(* one address; with two or more addresses it is the literal URL followed  *)
(* by the endpoint URL with the host replaced by each address, IPv4 before *)
(* IPv6, deduplicated.                                                     *)
C14_ResolverList ==
    [][ /\ \A r \in RaceIds : \A r4 \in AnyResolve4 : \A r6 \in AnyResolve6 :
              (DnsSettle(r, r4, r6) /\ r4.ok /\ r6.ok) =>
                  LET url == races[r].url
                      ips == Dedup(r4.addrs \o r6.addrs)
                      list == candidateList(sockets', races'[r])
                  IN  /\ list[1] = Literal(url)
                      /\ Len(ips) <= 1 => list = <<Literal(url)>>
                      /\ Len(ips) >= 2 =>
                            list = <<Literal(url)>> \o [i \in 1..Len(ips) |-> Substituted(url, ips[i])]
        /\ (Len(races') = Len(races) + 1 /\ isIP(races'[Len(races')].host)) =>
              candidateList(sockets', races'[Len(races')]) = <<Literal(races'[Len(races')].url)>>
      ]_vars

(* The lookup outcome with a failed family counted as no address. *)
Usable(res) == IF res.ok THEN res ELSE [ok |-> TRUE, addrs |-> <<>>]

(* C15: when one address family fails to resolve and the other resolves,   *)
(* candidate listing and connect() do not fail and the candidates are      *)
(* built from the family that resolved; when both fail the list is the     *)
(* literal URL alone.                                                      *)
C15_OneFamilyFailureTolerated ==
    [][ \A r \in RaceIds : \A r4 \in Resolve4Outcomes : \A r6 \in Resolve6Outcomes :
          (DnsSettle(r, r4, r6) /\ (~r4.ok \/ ~r6.ok)) =>
              /\ races'[r].pc = "racing"
              /\ candidateList(sockets', races'[r]) =
                    listWebsocketCandidateUrls(races[r].url, races[r].host, webSocketUrl,
                                               Usable(r4), Usable(r6))
      ]_vars

(* An open channel on which the session's message handler is attached. *)
Handling(s) == sockets[s].state = "open" /\ sockets[s].listeners # {}

(* C16: the session has at most one active channel and at most one open    *)
(* channel has its message handler attached: the active channel, when      *)
(* there is one, is a single open socket, and it is the only open socket   *)
(* that delivers messages to the handler.                                  *)
C16_AtMostOneActiveChannel ==
    /\ ws # NoWs => ws \in SocketIds /\ sockets[ws].state = "open"
    /\ Cardinality({s \in SocketIds : Handling(s)}) <= 1
    /\ \A s \in SocketIds : Handling(s) => s = ws

(* Witness of C16: two overlapping races, each with a candidate that       *)
(* opened; one is the active channel, the other was closed.                *)
C16_Witness ==
    /\ ws # NoWs /\ Handling(ws)
    /\ \E r \in RaceIds :
          /\ races[r].pc = "done" /\ races[r].firstOpen # 0
          /\ races[r].firstOpen # ws
          /\ sockets[races[r].firstOpen].state = "closed"

Responded == {c \in CallIds : calls[c].resolves > 0}
TimedOut == {c \in CallIds : calls[c].rejects > 0}

(* C17 as stated: the table holds one entry per command sent, by send() or *)
(* by sendAsync(), less the responses matched and the timeouts fired.      *)
C17_Original ==
    Cardinality(DOMAIN pendingCommands) =
        Len(issued) - (Cardinality(Responded) + Cardinality(TimedOut))

(* C17 amended: the table holds one entry per command sent through send(), *)
(* less the responses matched and the timeouts fired; a command sent       *)
(* through sendAsync() alone registers no waiter and is not counted.       *)
C17_TableCountsSends ==
    /\ Cardinality(DOMAIN pendingCommands) =
          Len(calls) - (Cardinality(Responded) + Cardinality(TimedOut))
    /\ Len(calls) <= Len(issued)

(* Witness of C17: a sendAsync() command besides a send() answered and a   *)
(* send() still waiting.                                                   *)
C17_Witness ==
    /\ Len(issued) > Len(calls)
    /\ \E c \in CallIds : Pending(c)
    /\ Responded # {}

CloseStep == Close \/ \E url \in Urls : Reconnect(url)

(* C18 as stated: after close(), and after the close step of reconnect(),  *)
(* the pending table is empty and every command in flight has been failed. *)
C18_Original ==
    [][ CloseStep =>
            /\ pendingCommands' = <<>>
            /\ \A c \in CallIds : ~Pending(c)'
      ]_vars

(* C18 amended: close(), and the close step of reconnect(), flush nothing: *)
(* the pending table and every command in flight are as they were, so each *)
(* waiter registered on the closed channel survives the close; an entry    *)
(* leaves the table only when its own timer fires or a response carrying   *)
(* its id is handled.                                                      *)
C18_CloseKeepsWaiters ==
    [][ /\ CloseStep => UNCHANGED <<pendingCommands, calls>>
        /\ \A k \in DOMAIN pendingCommands :
              k \notin DOMAIN pendingCommands' =>
                  \/ Timeout(pendingCommands[k])
                  \/ last'.op = "message" /\ last'.call = pendingCommands[k]
      ]_vars

(* Witness of C18: close() has just returned and a send is still waiting,  *)
(* its timer armed.                                                        *)
C18_Witness ==
    /\ last = JustClosed /\ ~isConnected /\ ws = NoWs
    /\ \E c \in CallIds : Pending(c) /\ calls[c].timer = "armed" /\ calls[c].id \in DOMAIN pendingCommands

(* C19: once close() has returned, the session is Disconnected with no     *)
(* active channel, and the next thing to happen, unless it is a call of    *)
(* connect() or reconnect(), leaves it so: no 'open' of a candidate and no *)
(* completion of a connect() started before the close() connects it.       *)
C19_StaysDisconnectedAfterClose ==
    [][ (last = JustClosed /\ ~Connect /\ ~(\E url \in Urls : Reconnect(url))) =>
            ~isConnected' /\ ws' = NoWs
      ]_vars

(* C20: outside test mode, a connected session has an active channel, and  *)
(* sendAsync() on a connected session does not throw the not-connected     *)
(* error.                                                                  *)
C20_ConnectedImpliesChannel ==
    /\ [](~unitTests /\ isConnected => ws # NoWs /\ ~notConnected)
    /\ [][ (~unitTests /\ isConnected /\ SendAsync) => last'.threw = "none" ]_vars

(* Witness of C20: a sendAsync() accepted on the second channel of a        *)
(* session whose first channel was closed.                                 *)
C20_Witness ==
    /\ ~unitTests /\ isConnected
    /\ last.op = "sendAsync" /\ last.threw = "none"
    /\ \E s \in SocketIds : s # ws /\ sockets[s].state = "closed" /\ sockets[s].listeners # {}

=============================================================================
